---- MODULE Spec2Model ----
(***************************************************************************)
(* A model of the voxel world engine: the World streaming manager          *)
(* (src/script/world.js), the fixed-step Physics loop                      *)
(* (src/unnamed/part_001) and the handlers that drive them                 *)
(* (src/script/main.js, src/unnamed/part_000).                             *)
(*                                                                         *)
(* WorldChunk and DataStore are imported by world.js but their files are   *)
(* not part of src/; their operations are modelled from the written        *)
(* specification (sections 4.2 and 4.3), in the two sections so headed     *)
(* below.  A chunk is constructed from (chunkSize, params, dataStore)      *)
(* only (world.js:108-112, 220) and is handed chunk-local coordinates      *)
(* (world.js:246, 313, 336, 359, 375), so every chunk operation works on   *)
(* the chunk's own voxel grid.                                             *)
(***************************************************************************)
EXTENDS Integers, Sequences, FiniteSets, TLC

(***************************************************************************)
(* Bounds of the model.  The program runs with chunkSize 32x32 and         *)
(* drawDistance 2 (world.js:18-19); the model keeps the code generic in    *)
(* them and checks small values.                                           *)
(***************************************************************************)
W == 3
H == 3
drawDistance == 1
\* most deferred generations outstanding at once (the idle callbacks are
\* forced after 1000 ms, world.js:224-226, so the queue is bounded); enough
\* for an update to run while a generation of the update before is pending
MaxIdle == 4
\* most entries the edit overlay holds at once
MaxOverlay == 2

\* blocks.empty.id
EmptyId == 0
\* the value of a query that finds no block
Null == -1

VARIABLES
    children,      \* World.children: chunk object ids, in insertion order
    chunks,        \* the live chunk objects: id -> chunk record
    dataStore,     \* World.dataStore.data: the edit overlay
    idleQueue,     \* pending requestIdleCallback(chunk.generate) calls, FIFO
    asyncLoading,  \* World.asyncLoading
    seed,          \* World.params.seed
    last,          \* the operation that ran last, with its arguments
    edited,        \* history: the last successful edit at each edit position
    query,         \* the world coordinate handed to worldToChunkCoords
    result,        \* what worldToChunkCoords returned for it
    accumulator,   \* Physics.accumulator, in milliseconds
    player,        \* the Player: position, velocity, input, onGround, yaw
    engine,        \* what Array.prototype.sort makes of a boolean comparator
    start,         \* history: the player when the simulation began
    total,         \* history: the sum of the dt of all Physics.update calls
    steps,         \* history: the physics steps run so far
    localStorage,  \* the items minecraft_params and minecraft_data, as text
    panelBound,    \* World.params is the object the panel's controls edit
    saved,         \* history: the params and the overlay when save last ran
    pc,            \* where Physics.update stands: "return" between two calls
    candidateList, \* detectCollisions' candidates, once broadPhase returned
    collisionList, \* detectCollisions' collisions, once narrowPhase returned
    processed,     \* history: the records in the order resolveCollisions took them
    integrated,    \* history: the player as applyInputs left it in this step
    phases         \* history: the phases this step has run

worldVars ==
    <<children, chunks, dataStore, idleQueue, asyncLoading, seed, last, edited>>

coordVars == <<query, result>>

physVars == <<accumulator, player, engine, start, total, steps>>

storeVars == <<localStorage, panelBound, saved>>

stepVars ==
    <<pc, candidateList, collisionList, processed, integrated, phases>>

vars == <<worldVars, coordVars, physVars, storeVars, stepVars>>

----------------------------------------------------------------------------
(* Sequence helpers *)

RECURSIVE SeqToSetR(_, _)
SeqToSetR(s, i) == IF i > Len(s) THEN {} ELSE {s[i]} \cup SeqToSetR(s, i + 1)
Range(s) == SeqToSetR(s, 1)

----------------------------------------------------------------------------
(* Blocks and the procedural terrain *)

Seeds == {0, 1}
\* the block ids the player places (player.activeBlockId, keys "1".."8")
PlaceIds == {3}

\* The W x H x W voxels of a chunk, data[x][y][z], numbered 1 .. W*H*W
Cells == 1 .. W * H * W
cell(lx, ly, lz) == lx * H * W + ly * W + lz + 1
cellX(i) == (i - 1) \div (H * W)
cellY(i) == ((i - 1) \div W) % H
cellZ(i) == (i - 1) % W

\* The procedural block at world (x, y, z): a deterministic function of the
\* coordinates and the seed.  Solid below the top layer, and a checkerboard
\* (shifted by the seed) on the top layer.
Terrain(s, x, y, z) ==
    IF y < H - 1 THEN 1
    ELSE IF (x + z + s) % 2 = 0 THEN 2 ELSE EmptyId

----------------------------------------------------------------------------
(* CoordinateMapper *)

\* FloorDiv with the quotient truncated toward zero (Math.trunc, or | 0)
FloorDivTrunc(a, b) == IF a >= 0 THEN a \div b ELSE -((-a) \div b)

\* Math.floor(a / b) for integers a and b > 0
FloorDiv(a, b) == a \div b

worldToChunkCoords(x, y, z) ==
    LET cx == FloorDiv(x, W)
        cz == FloorDiv(z, W)
    IN  [chunk |-> [x |-> cx, z |-> cz],
         block |-> [x |-> x - W * cx, y |-> y, z |-> z - W * cz]]

----------------------------------------------------------------------------
(* DataStore (spec section 4.2) *)

dsKey(cx, cz, lx, ly, lz) == <<cx, cz, lx, ly, lz>>

dsContains(ds, cx, cz, lx, ly, lz) == dsKey(cx, cz, lx, ly, lz) \in DOMAIN ds

dsGet(ds, cx, cz, lx, ly, lz) == ds[dsKey(cx, cz, lx, ly, lz)]

dsSet(ds, cx, cz, lx, ly, lz, id) ==
    [k \in DOMAIN ds \cup {dsKey(cx, cz, lx, ly, lz)} |->
        IF k = dsKey(cx, cz, lx, ly, lz) THEN id ELSE ds[k]]

dsClear == << >>

\* DataStore.data after it was assigned null: an overlay that is no object
NullData == [k \in {dsKey(Null, Null, Null, Null, Null)} |-> Null]

----------------------------------------------------------------------------
(* WorldChunk (spec section 4.3) *)

inBounds(lx, ly, lz) ==
    /\ lx >= 0 /\ lx < W
    /\ ly >= 0 /\ ly < H
    /\ lz >= 0 /\ lz < W

\* new WorldChunk(...) with userData = {x, z}: created empty, not loaded
newChunk(cx, cz) ==
    [x |-> cx, z |-> cz, loaded |-> FALSE,
     data |-> [i \in Cells |-> EmptyId], inst |-> {}]

\* WorldChunk.getBlock: the block id, or Null out of bounds or when the
\* chunk is not loaded
chunkGetBlock(c, lx, ly, lz) ==
    IF c.loaded /\ inBounds(lx, ly, lz) THEN c.data[cell(lx, ly, lz)] ELSE Null

solidAt(c, lx, ly, lz) ==
    chunkGetBlock(c, lx, ly, lz) \notin {Null, EmptyId}

\* WorldChunk.isBlockObscured: all six neighbours are solid.  A neighbour
\* outside the chunk's grid is no block (chunkGetBlock is Null there), so only
\* a block off the chunk's faces can be obscured.
isBlockObscured(c, lx, ly, lz) ==
    /\ c.loaded
    /\ inBounds(lx - 1, ly - 1, lz - 1)
    /\ inBounds(lx + 1, ly + 1, lz + 1)
    /\ c.data[cell(lx - 1, ly, lz)] # EmptyId
    /\ c.data[cell(lx + 1, ly, lz)] # EmptyId
    /\ c.data[cell(lx, ly - 1, lz)] # EmptyId
    /\ c.data[cell(lx, ly + 1, lz)] # EmptyId
    /\ c.data[cell(lx, ly, lz - 1)] # EmptyId
    /\ c.data[cell(lx, ly, lz + 1)] # EmptyId

\* WorldChunk.generate: procedural terrain, then the overlay, then the
\* instance table
chunkGenerate(c, ds, s) ==
    LET data == [i \in Cells |->
                    IF dsContains(ds, c.x, c.z, cellX(i), cellY(i), cellZ(i))
                    THEN dsGet(ds, c.x, c.z, cellX(i), cellY(i), cellZ(i))
                    ELSE Terrain(s, W * c.x + cellX(i), cellY(i),
                                 W * c.z + cellZ(i))]
        filled == [c EXCEPT !.loaded = TRUE, !.data = data]
    IN  [filled EXCEPT !.inst =
            {i \in Cells :
                /\ data[i] # EmptyId
                /\ ~isBlockObscured(filled, cellX(i), cellY(i), cellZ(i))}]

\* WorldChunk.addBlockInstance: give a non-empty block without an instance one
chunkAddBlockInstance(c, lx, ly, lz) ==
    IF solidAt(c, lx, ly, lz)
    THEN [c EXCEPT !.inst = @ \cup {cell(lx, ly, lz)}]
    ELSE c

\* WorldChunk.deleteBlockInstance
chunkDeleteBlockInstance(c, lx, ly, lz) ==
    [c EXCEPT !.inst = @ \ {cell(lx, ly, lz)}]

\* WorldChunk.addBlock: only onto an empty block; the instance is added if
\* the new block is externally facing
chunkAddBlock(c, lx, ly, lz, id) ==
    IF chunkGetBlock(c, lx, ly, lz) = EmptyId
    THEN LET set == [c EXCEPT !.data[cell(lx, ly, lz)] = id]
         IN  IF isBlockObscured(set, lx, ly, lz) THEN set
             ELSE chunkAddBlockInstance(set, lx, ly, lz)
    ELSE c

\* WorldChunk.removeBlock: only a non-empty block
chunkRemoveBlock(c, lx, ly, lz) ==
    IF solidAt(c, lx, ly, lz)
    THEN [chunkDeleteBlockInstance(c, lx, ly, lz)
            EXCEPT !.data[cell(lx, ly, lz)] = EmptyId]
    ELSE c

\* WorldChunk.disposeInstances: the render handles go, the voxels stay
disposeInstances(c) == [c EXCEPT !.inst = {}]

----------------------------------------------------------------------------
(* World (src/script/world.js) *)

\* the world object as one value: what the World methods read and write
World ==
    [children |-> children, chunks |-> chunks, dataStore |-> dataStore,
     idleQueue |-> idleQueue, asyncLoading |-> asyncLoading, seed |-> seed]

\* the result of Array.prototype.find that finds nothing
NoChunk == 0

\* a fresh object identity
newId(chs) == CHOOSE n \in 1 .. Cardinality(DOMAIN chs) + 1 : n \notin DOMAIN chs

\* drop the chunk objects nothing refers to any more
reachable(w) ==
    [w EXCEPT !.chunks =
        [i \in Range(w.children) \cup Range(w.idleQueue) |-> w.chunks[i]]]

\* Object identities are opaque to the program: name the live objects 1, 2, ...
\* in the order the children and then the idle queue list them.
renumber(w) ==
    LET detached == SelectSeq(w.idleQueue, LAMBDA id : id \notin Range(w.children))
        order == w.children \o detached
        rank(id) == CHOOSE i \in 1 .. Len(order) : order[i] = id
    IN  [w EXCEPT !.children = [i \in 1 .. Len(w.children) |-> i],
                  !.idleQueue = [i \in 1 .. Len(w.idleQueue) |-> rank(w.idleQueue[i])],
                  !.chunks = [i \in 1 .. Len(order) |-> w.chunks[order[i]]]]

RECURSIVE findChunk(_, _, _, _)
findChunk(w, cx, cz, i) ==
    IF i > Len(w.children) THEN NoChunk
    ELSE IF w.chunks[w.children[i]].x = cx /\ w.chunks[w.children[i]].z = cz
         THEN w.children[i]
         ELSE findChunk(w, cx, cz, i + 1)

\* getChunk whose predicate compares the x coordinate only
getChunkByX(w, chunkX, chunkZ) ==
    IF \E i \in 1 .. Len(w.children) : w.chunks[w.children[i]].x = chunkX
    THEN w.children[CHOOSE i \in 1 .. Len(w.children) :
            /\ w.chunks[w.children[i]].x = chunkX
            /\ \A j \in 1 .. i - 1 : w.chunks[w.children[j]].x # chunkX]
    ELSE NoChunk

getChunk(w, chunkX, chunkZ) == findChunk(w, chunkX, chunkZ, 1)

getBlock(w, x, y, z) ==
    LET coords == worldToChunkCoords(x, y, z)
        chunk == getChunk(w, coords.chunk.x, coords.chunk.z)
    IN  IF chunk # NoChunk /\ w.chunks[chunk].loaded
        THEN chunkGetBlock(w.chunks[chunk],
                           coords.block.x, coords.block.y, coords.block.z)
        ELSE Null

revealBlock(w, x, y, z) ==
    LET coords == worldToChunkCoords(x, y, z)
        chunk == getChunk(w, coords.chunk.x, coords.chunk.z)
    IN  IF chunk # NoChunk
        THEN [w EXCEPT !.chunks[chunk] =
                chunkAddBlockInstance(@, coords.block.x, coords.block.y,
                                      coords.block.z)]
        ELSE w

\* hideBlock that deletes the instance without asking isBlockObscured
hideBlockAlways(w, x, y, z) ==
    LET coords == worldToChunkCoords(x, y, z)
        chunk == getChunk(w, coords.chunk.x, coords.chunk.z)
    IN  IF chunk # NoChunk
        THEN [w EXCEPT !.chunks[chunk] =
                chunkDeleteBlockInstance(@, coords.block.x, coords.block.y,
                                         coords.block.z)]
        ELSE w

hideBlock(w, x, y, z) ==
    LET coords == worldToChunkCoords(x, y, z)
        chunk == getChunk(w, coords.chunk.x, coords.chunk.z)
    IN  IF /\ chunk # NoChunk
           /\ isBlockObscured(w.chunks[chunk], coords.block.x, coords.block.y,
                              coords.block.z)
        THEN [w EXCEPT !.chunks[chunk] =
                chunkDeleteBlockInstance(@, coords.block.x, coords.block.y,
                                         coords.block.z)]
        ELSE w

\* the six hideBlock calls of addBlock, in the code's order
hideNeighbors(w, x, y, z) ==
    hideBlock(hideBlock(hideBlock(hideBlock(hideBlock(hideBlock(w,
        x - 1, y, z), x + 1, y, z), x, y - 1, z), x, y + 1, z),
        x, y, z - 1), x, y, z + 1)

\* the six revealBlock calls of removeBlock, in the code's order
revealNeighbors(w, x, y, z) ==
    revealBlock(revealBlock(revealBlock(revealBlock(revealBlock(revealBlock(w,
        x - 1, y, z), x + 1, y, z), x, y - 1, z), x, y + 1, z),
        x, y, z - 1), x, y, z + 1)

\* chunk.addBlock on the owning chunk: the voxel, its instance, the overlay
routeAddBlock(w, chunk, lx, ly, lz, blockId) ==
    LET c == w.chunks[chunk]
    IN  IF chunkGetBlock(c, lx, ly, lz) = EmptyId
        THEN [w EXCEPT !.chunks[chunk] = chunkAddBlock(c, lx, ly, lz, blockId),
                       !.dataStore = dsSet(@, c.x, c.z, lx, ly, lz, blockId)]
        ELSE w

\* chunk.removeBlock on the owning chunk
routeRemoveBlock(w, chunk, lx, ly, lz) ==
    LET c == w.chunks[chunk]
    IN  IF solidAt(c, lx, ly, lz)
        THEN [w EXCEPT !.chunks[chunk] = chunkRemoveBlock(c, lx, ly, lz),
                       !.dataStore = dsSet(@, c.x, c.z, lx, ly, lz, EmptyId)]
        ELSE w

\* addBlock that hands the chunk the world coordinates, not coords.block
addBlockWorldCoords(w, x, y, z, blockId) ==
    LET coords == worldToChunkCoords(x, y, z)
        chunk == getChunk(w, coords.chunk.x, coords.chunk.z)
    IN  IF chunk # NoChunk
        THEN hideNeighbors(routeAddBlock(w, chunk, x, y, z, blockId), x, y, z)
        ELSE w

\* addBlock that records the edit in the overlay when no chunk owns the
\* position
addBlockRecordsAbsent(w, x, y, z, blockId) ==
    LET coords == worldToChunkCoords(x, y, z)
        chunk == getChunk(w, coords.chunk.x, coords.chunk.z)
    IN  IF chunk # NoChunk
        THEN hideNeighbors(
                routeAddBlock(w, chunk, coords.block.x, coords.block.y,
                              coords.block.z, blockId), x, y, z)
        ELSE [w EXCEPT !.dataStore =
                dsSet(@, coords.chunk.x, coords.chunk.z, coords.block.x,
                      coords.block.y, coords.block.z, blockId)]

addBlock(w, x, y, z, blockId) ==
    LET coords == worldToChunkCoords(x, y, z)
        chunk == getChunk(w, coords.chunk.x, coords.chunk.z)
    IN  IF chunk # NoChunk
        THEN hideNeighbors(
                routeAddBlock(w, chunk, coords.block.x, coords.block.y,
                              coords.block.z, blockId), x, y, z)
        ELSE w

removeBlock(w, x, y, z) ==
    LET coords == worldToChunkCoords(x, y, z)
        chunk == getChunk(w, coords.chunk.x, coords.chunk.z)
    IN  IF chunk # NoChunk
        THEN revealNeighbors(
                routeRemoveBlock(w, chunk, coords.block.x, coords.block.y,
                                 coords.block.z), x, y, z)
        ELSE w

\* the coordinates getVisibleChunks pushes, in the order of its two loops
getVisibleChunks(px, py, pz) ==
    LET coords == worldToChunkCoords(px, py, pz)
        chunkX == coords.chunk.x
        chunkZ == coords.chunk.z
        n == 2 * drawDistance + 1
    IN  [i \in 1 .. n * n |->
            [x |-> chunkX - drawDistance + ((i - 1) \div n),
             z |-> chunkZ - drawDistance + ((i - 1) % n)]]

\* whether some child has the coordinates of v
chunkExists(w, v) ==
    \E i \in 1 .. Len(w.children) :
        w.chunks[w.children[i]].x = v.x /\ w.chunks[w.children[i]].z = v.z

\* getChunksToAdd that takes a chunk still waiting for its generate() as
\* not in the world
getChunksToAddLoadedOnly(w, visibleChunks) ==
    SelectSeq(visibleChunks,
              LAMBDA v : ~\E i \in 1 .. Len(w.children) :
                            /\ w.chunks[w.children[i]].x = v.x
                            /\ w.chunks[w.children[i]].z = v.z
                            /\ w.chunks[w.children[i]].loaded)

getChunksToAdd(w, visibleChunks) ==
    SelectSeq(visibleChunks, LAMBDA v : ~chunkExists(w, v))

\* whether the child with this id is one of the visible coordinates
isVisible(w, visibleChunks, id) ==
    \E i \in 1 .. Len(visibleChunks) :
        visibleChunks[i].x = w.chunks[id].x /\ visibleChunks[i].z = w.chunks[id].z

\* removeUnusedChunks that disposes the instances but never calls remove
removeUnusedChunksKeep(w, visibleChunks) ==
    [w EXCEPT
        !.chunks = [id \in DOMAIN w.chunks |->
                        IF id \in Range(w.children)
                           /\ ~isVisible(w, visibleChunks, id)
                        THEN disposeInstances(w.chunks[id])
                        ELSE w.chunks[id]]]

removeUnusedChunks(w, visibleChunks) ==
    LET chunksToRemove ==
            SelectSeq(w.children, LAMBDA id : ~isVisible(w, visibleChunks, id))
    IN  [w EXCEPT
            !.chunks = [id \in DOMAIN w.chunks |->
                            IF id \in Range(chunksToRemove)
                            THEN disposeInstances(w.chunks[id])
                            ELSE w.chunks[id]],
            !.children = SelectSeq(w.children,
                            LAMBDA id : id \notin Range(chunksToRemove))]

\* this.add(chunk) of a chunk object that is new to the world
addChild(w, id, chunk) ==
    [w EXCEPT !.chunks = [i \in DOMAIN w.chunks \cup {id} |->
                             IF i = id THEN chunk ELSE w.chunks[i]],
              !.children = Append(@, id)]

\* generateChunk that gives the chunk a DataStore of its own
generateChunkOwnStore(w, x, z) ==
    LET id == newId(w.chunks)
        chunk == newChunk(x, z)
    IN  IF w.asyncLoading
        THEN [addChild(w, id, chunk) EXCEPT !.idleQueue = Append(@, id)]
        ELSE addChild(w, id, chunkGenerate(chunk, dsClear, w.seed))

\* generateChunk that asks for the idle callback and calls generate as well
generateChunkTwice(w, x, z) ==
    LET id == newId(w.chunks)
        chunk == newChunk(x, z)
    IN  IF w.asyncLoading
        THEN [addChild(w, id, chunkGenerate(chunk, w.dataStore, w.seed))
                EXCEPT !.idleQueue = Append(@, id)]
        ELSE addChild(w, id, chunkGenerate(chunk, w.dataStore, w.seed))

\* With params null (after a load that found no snapshot) chunk.generate()
\* raises a TypeError: called at once it does so before this.add(chunk).
generateChunk(w, x, z) ==
    LET id == newId(w.chunks)
        chunk == newChunk(x, z)
    IN  IF w.asyncLoading
        THEN [addChild(w, id, chunk) EXCEPT !.idleQueue = Append(@, id)]
        ELSE IF w.seed = Null THEN w
        ELSE addChild(w, id, chunkGenerate(chunk, w.dataStore, w.seed))

\* for (const chunk of chunksToAdd) this.generateChunk(chunk.x, chunk.z);
\* the TypeError of a generateChunk ends the loop
RECURSIVE generateChunks(_, _, _)
generateChunks(w, chunksToAdd, i) ==
    IF i > Len(chunksToAdd) \/ (~w.asyncLoading /\ w.seed = Null) THEN w
    ELSE generateChunks(generateChunk(w, chunksToAdd[i].x, chunksToAdd[i].z),
                        chunksToAdd, i + 1)

update(w, px, py, pz) ==
    LET visibleChunks == getVisibleChunks(px, py, pz)
        chunksToAdd == getChunksToAdd(w, visibleChunks)
    IN  generateChunks(reachable(removeUnusedChunks(w, visibleChunks)),
                       chunksToAdd, 1)

disposeChunks(w) ==
    [w EXCEPT !.chunks = [id \in DOMAIN w.chunks |->
                             IF id \in Range(w.children)
                             THEN disposeInstances(w.chunks[id])
                             ELSE w.chunks[id]],
              !.children = << >>]

\* generate that ignores clearCache
clearIfNever(clearCache, ds) == ds

\* if (clearCache) this.dataStore.clear()
clearIf(clearCache, ds) == IF clearCache THEN dsClear ELSE ds

\* one pass of the body of generate's two loops: a new chunk, generated at once.
\* With params null (after a load that found no snapshot) the first
\* chunk.generate() raises a TypeError when it reads a parameter, before
\* this.add(chunk), and the loops end there.
RECURSIVE generateAll(_, _, _)
generateAll(w, coords, i) ==
    IF i > Len(coords) \/ w.seed = Null THEN w
    ELSE generateAll(
            addChild(w, newId(w.chunks),
                     chunkGenerate(newChunk(coords[i].x, coords[i].z),
                                   w.dataStore, w.seed)),
            coords, i + 1)

generate(w, clearCache) ==
    LET cleared == [w EXCEPT !.dataStore = clearIf(clearCache, @)]
        n == 2 * drawDistance + 1
        coords == [i \in 1 .. n * n |->
                      [x |-> ((i - 1) \div n) - drawDistance,
                       z |-> ((i - 1) % n) - drawDistance]]
    IN  generateAll(reachable(disposeChunks(cleared)), coords, 1)

(* Persistence: World.save and World.load.  An item of localStorage is a   *)
(* text.  The model keeps a text as the tokens JSON.stringify writes: the  *)
(* kind of the value, the seed of a params object, and the entries of an   *)
(* overlay object one after the other.                                     *)

\* localStorage.getItem of a key that was never set
NoItem == [kind |-> "none", seed |-> Null, entries |-> << >>]

\* the text of the value null
NullText == [kind |-> "null", seed |-> Null, entries |-> << >>]

\* JSON.stringify(this.params)
stringifyParams(s) ==
    IF s = Null THEN NullText
    ELSE [kind |-> "object", seed |-> s, entries |-> << >>]

\* JSON.stringify(this.dataStore.data): "key":value for every own key
stringifyData(ds) ==
    IF ds = NullData THEN NullText
    ELSE LET n == Cardinality(DOMAIN ds)
             order == CHOOSE s \in [1 .. n -> DOMAIN ds] :
                          {s[i] : i \in 1 .. n} = DOMAIN ds
         IN  [kind |-> "object", seed |-> Null,
              entries |-> [i \in 1 .. n |->
                              [key |-> order[i], value |-> ds[order[i]]]]]

\* JSON.parse(localStorage.getItem("minecraft_params")): getItem gives null
\* for a missing item, which JSON.parse reads as the text "null"
parseParams(t) == IF t.kind = "object" THEN t.seed ELSE Null

\* JSON.parse(localStorage.getItem("minecraft_data")): an object with the
\* keys of the text, a key written twice holding its last value
parseData(t) ==
    IF t.kind = "object"
    THEN [k \in {t.entries[i].key : i \in 1 .. Len(t.entries)} |->
             LET i == CHOOSE i \in 1 .. Len(t.entries) :
                          /\ t.entries[i].key = k
                          /\ \A j \in i + 1 .. Len(t.entries) :
                                 t.entries[j].key # k
             IN  t.entries[i].value]
    ELSE NullData

\* the two items as save() writes them
save(w) ==
    [params |-> stringifyParams(w.seed), data |-> stringifyData(w.dataStore)]

\* load that adds the stored entries to the overlay it finds
loadMerge(w, items) ==
    LET stored == parseData(items.data)
    IN  generate([w EXCEPT
                     !.seed = parseParams(items.params),
                     !.dataStore = [k \in DOMAIN stored \cup DOMAIN @ |->
                                       IF k \in DOMAIN stored THEN stored[k]
                                       ELSE @[k]]],
                 FALSE)

\* load(): params and dataStore.data replaced by the parsed items, then
\* generate()
load(w, items) ==
    generate([w EXCEPT !.seed = parseParams(items.params),
                       !.dataStore = parseData(items.data)],
             FALSE)

----------------------------------------------------------------------------
(* Player (src/script/player.js) and Physics (src/unnamed/part_001)        *)
(*                                                                         *)
(* The arithmetic is exact.  Time is counted in milliseconds.  Lengths     *)
(* are integers in units fine enough for every value the code computes:    *)
(* horizontal lengths in 1/XU block, vertical lengths in 1/YU block,       *)
(* velocities in 1/VU block per second.  The camera is level and its        *)
(* rotation.y (yaw) is a whole number of quarter turns, so that the         *)
(* rotations of worldVelocity and applyWorldDeltaVelocity are exact; the    *)
(* player walks along x on the line of a block centre z: with key a or d    *)
(* when it looks down -z (yaw 0), with key w or s when it looks down -x     *)
(* (yaw 1).                                                                 *)

simulationRate == 250
gravity == 32
maxSpeed == 10
jumpSpeed == 10

\* stepSize = 1 / simulationRate, in milliseconds
stepSize == 1000 \div simulationRate

\* velocity units per block/s: gravity * stepSize is a whole number of them
VU == 2 * simulationRate
\* vertical units per block: one velocity unit moves one of them in a step
YU == VU * simulationRate
\* horizontal units per block: maxSpeed * stepSize and radius are whole
XU == simulationRate \div 5
\* vertical units in one horizontal unit
XtoY == YU \div XU

\* Player.radius = 0.5 and Player.height = 1.75
radius == XU \div 2
height == (7 * YU) \div 4

Min(a, b) == IF a < b THEN a ELSE b
Max(a, b) == IF a > b THEN a ELSE b
Abs(a) == IF a < 0 THEN -a ELSE a
Sign(a) == IF a > 0 THEN 1 ELSE IF a < 0 THEN -1 ELSE 0
Ceil(a, b) == -FloorDiv(-a, b)
\* Math.sqrt of a perfect square
Sqrt(n) == CHOOSE r \in 0 .. n : r * r = n

Vector3(x, y, z) == [x |-> x, y |-> y, z |-> z]

\* Vector3.applyEuler(new THREE.Euler(0, angle, 0)) for an angle of q
\* quarter turns: x cos + z sin, y, -x sin + z cos
applyEuler(v, q) ==
    LET cos == <<1, 0, -1, 0>>[(q % 4) + 1]
        sin == <<0, 1, 0, -1>>[(q % 4) + 1]
    IN  Vector3(v.x * cos + v.z * sin, v.y, v.z * cos - v.x * sin)

\* get worldVelocity(): the velocity turned by camera.rotation.y
worldVelocity(pl) == applyEuler(pl.velocity, pl.yaw)

\* applyWorldDeltaVelocity that turns dv the way worldVelocity turns
applyWorldDeltaVelocitySameTurn(pl, dv) ==
    LET local == applyEuler(dv, pl.yaw)
    IN  [pl EXCEPT !.velocity = Vector3(@.x + local.x, @.y + local.y,
                                        @.z + local.z)]

\* applyWorldDeltaVelocity(dv): dv turned back by -camera.rotation.y and added
applyWorldDeltaVelocity(pl, dv) ==
    LET local == applyEuler(dv, -pl.yaw)
    IN  [pl EXCEPT !.velocity = Vector3(@.x + local.x, @.y + local.y,
                                        @.z + local.z)]

\* Vector3.normalize of an axis-aligned vector: divideScalar(length() || 1)
normalize(v) ==
    LET length == Sqrt(v.x * v.x + v.y * v.y + v.z * v.z)
        d == IF length = 0 THEN 1 ELSE length
    IN  Vector3(v.x \div d, v.y \div d, v.z \div d)

\* Math.abs(dy) < height / 2 && r_sq < radius * radius
pointInPlayerBoundingCylinder(p, pl) ==
    LET dx == p.x - pl.position.x
        dy == p.y - (pl.position.y - height \div 2)
        dz == p.z - pl.position.z
        r_sq == dx * dx + dz * dz
    IN  Abs(dy) < height \div 2 /\ r_sq < radius * radius

\* extents that begin at the middle of the cylinder, not at its foot
extentsBoxFromCentre(pl) ==
    LET xmin == FloorDiv(pl.position.x - radius, XU)
        xmax == Ceil(pl.position.x + radius, XU)
        ymin == FloorDiv(pl.position.y - height \div 2, YU)
        ymax == Ceil(pl.position.y, YU)
        zmin == FloorDiv(pl.position.z - radius, XU)
        zmax == Ceil(pl.position.z + radius, XU)
        ny == ymax - ymin + 1
        nz == zmax - zmin + 1
    IN  [i \in 1 .. (xmax - xmin + 1) * ny * nz |->
            Vector3(xmin + ((i - 1) \div (ny * nz)),
                    ymin + (((i - 1) \div nz) % ny),
                    zmin + ((i - 1) % nz))]

\* the block positions of the player's extents, x outermost and z innermost
extentsBox(pl) ==
    LET xmin == FloorDiv(pl.position.x - radius, XU)
        xmax == Ceil(pl.position.x + radius, XU)
        ymin == FloorDiv(pl.position.y - height, YU)
        ymax == Ceil(pl.position.y, YU)
        zmin == FloorDiv(pl.position.z - radius, XU)
        zmax == Ceil(pl.position.z + radius, XU)
        ny == ymax - ymin + 1
        nz == zmax - zmin + 1
    IN  [i \in 1 .. (xmax - xmin + 1) * ny * nz |->
            Vector3(xmin + ((i - 1) \div (ny * nz)),
                    ymin + (((i - 1) \div nz) % ny),
                    zmin + ((i - 1) % nz))]

\* a broad phase that tests blockId !== blocks.empty.id alone
broadPhaseNoNullTest(pl, w) ==
    SelectSeq(extentsBox(pl),
              LAMBDA b : getBlock(w, b.x, b.y, b.z) # EmptyId)

\* blockId && blockId !== blocks.empty.id
broadPhase(pl, w) ==
    SelectSeq(extentsBox(pl),
              LAMBDA b : getBlock(w, b.x, b.y, b.z) \notin {Null, EmptyId})

\* the body of narrowPhase's loop for one candidate block
contact(block, pl) ==
    LET closestPoint ==
            Vector3(Max(block.x * XU - XU \div 2,
                        Min(pl.position.x, block.x * XU + XU \div 2)),
                    Max(block.y * YU - YU \div 2,
                        Min(pl.position.y - height \div 2,
                            block.y * YU + YU \div 2)),
                    Max(block.z * XU - XU \div 2,
                        Min(pl.position.z, block.z * XU + XU \div 2)))
        dx == closestPoint.x - pl.position.x
        dy == closestPoint.y - (pl.position.y - height \div 2)
        dz == closestPoint.z - pl.position.z
        inside == pointInPlayerBoundingCylinder(closestPoint, pl)
        overlapY == height \div 2 - Abs(dy)
        overlapXZ == (radius - Sqrt(dx * dx + dz * dz)) * XtoY
        vertical == inside /\ overlapY < overlapXZ
    IN  [block |-> block,
         contactPoint |-> closestPoint,
         inside |-> inside,
         vertical |-> vertical,
         normal |-> IF vertical THEN Vector3(0, -Sign(dy), 0)
                    ELSE IF inside THEN normalize(Vector3(-dx, 0, -dz))
                    ELSE Vector3(0, 0, 0),
         overlap |-> IF vertical THEN overlapY
                     ELSE IF inside THEN overlapXZ ELSE 0]

\* the collision records narrowPhase returns, in the order of the candidates
narrowPhase(candidates, pl) ==
    SelectSeq([i \in 1 .. Len(candidates) |-> contact(candidates[i], pl)],
              LAMBDA c : c.inside)

\* a narrow phase that never sets player.onGround
narrowPhaseOnGroundNever(candidates, pl) == FALSE

\* player.onGround as narrowPhase leaves it
narrowPhaseOnGround(candidates, pl) ==
    \E i \in 1 .. Len(candidates) : contact(candidates[i], pl).vertical

\* Array.prototype.sort with a comparator that returns a boolean: a stable
\* sort that reads true as "a after b" puts larger overlaps first
RECURSIVE sortDescending(_, _, _)
sortDescending(cs, i, sorted) ==
    IF i > Len(cs) THEN sorted
    ELSE LET before == SelectSeq(sorted, LAMBDA c : c.overlap >= cs[i].overlap)
             after == SelectSeq(sorted, LAMBDA c : c.overlap < cs[i].overlap)
         IN  sortDescending(cs, i + 1, before \o <<cs[i]>> \o after)

\* collisions.sort((a, b) => a.overlap < b.overlap): the comparator is never
\* negative, so an engine either leaves the array as it is or sorts it by
\* falling overlap
sortCollisions(collisions, e) ==
    IF e = "descending" THEN sortDescending(collisions, 1, << >>)
    ELSE collisions

\* the body of resolveCollisions' loop for one collision record
resolveOne(collision, pl) ==
    IF ~pointInPlayerBoundingCylinder(collision.contactPoint, pl) THEN pl
    ELSE LET n == collision.normal
             wv == worldVelocity(pl)
             magnitude == wv.x * n.x + wv.y * n.y + wv.z * n.z
             moved == [pl EXCEPT
                !.position = Vector3(@.x + (n.x * collision.overlap) \div XtoY,
                                     @.y + n.y * collision.overlap,
                                     @.z + (n.z * collision.overlap) \div XtoY)]
         IN  applyWorldDeltaVelocity(moved,
                Vector3(-(n.x * magnitude), -(n.y * magnitude),
                        -(n.z * magnitude)))

RECURSIVE resolveFrom(_, _, _)
resolveFrom(collisions, i, pl) ==
    IF i > Len(collisions) THEN pl
    ELSE \* the player after record i is computed once, then handed on
         CHOOSE after \in { resolveFrom(collisions, i + 1, resolved) :
                              resolved \in {resolveOne(collisions[i], pl)} } : TRUE

resolveCollisions(collisions, pl, e) ==
    resolveFrom(sortCollisions(collisions, e), 1, pl)

detectCollisions(pl, w, e) ==
    LET reset == [pl EXCEPT !.onGround = FALSE]
        candidates == broadPhase(reset, w)
        collisions == narrowPhase(candidates, reset)
        detected == [reset EXCEPT
                        !.onGround = narrowPhaseOnGround(candidates, reset)]
    IN  IF Len(collisions) > 0 THEN resolveCollisions(collisions, detected, e)
        ELSE detected

\* Player.applyInputs(dt) with the controls locked; dt in milliseconds.
\* moveRight moves along the camera's x axis, moveForward along the cross
\* product of up and that axis.
applyInputs(pl, dt) ==
    LET vx == pl.input.x
        vz == pl.input.z
        perUnit == (dt * simulationRate) \div 1000
        right == applyEuler(Vector3(1, 0, 0), pl.yaw)
        forward == Vector3(right.z, 0, -right.x)
    IN  [pl EXCEPT
            !.velocity = Vector3(vx, @.y, vz),
            !.position =
                Vector3(@.x + ((right.x * vx + forward.x * vz) * perUnit) \div XtoY,
                        @.y + pl.velocity.y * perUnit,
                        @.z + ((right.z * vx + forward.z * vz) * perUnit) \div XtoY)]

\* the body of the loop of Physics.update
step(pl, w, e) ==
    LET fallen == [pl EXCEPT !.velocity.y = @ - (gravity * VU * stepSize) \div 1000]
    IN  detectCollisions(applyInputs(fallen, stepSize), w, e)

\* the loop of Physics.update that ends with an empty accumulator
RECURSIVE whileAccumulatorDrop(_, _, _, _, _)
whileAccumulatorDrop(acc, pl, n, w, e) ==
    IF acc >= stepSize
    THEN whileAccumulatorDrop(acc - stepSize, step(pl, w, e), n + 1, w, e)
    ELSE [accumulator |-> 0, player |-> pl, steps |-> n]

\* while (this.accumulator >= this.stepSize) { ...; this.accumulator -= stepSize }
RECURSIVE whileAccumulator(_, _, _, _, _)
whileAccumulator(acc, pl, n, w, e) ==
    IF acc >= stepSize
    THEN whileAccumulator(acc - stepSize, step(pl, w, e), n + 1, w, e)
    ELSE [accumulator |-> acc, player |-> pl, steps |-> n]

\* Physics.update that runs one step at most in a call (if for while)
physicsUpdateOnce(acc, pl, dt, w, e) ==
    IF acc + dt >= stepSize
    THEN [accumulator |-> acc + dt - stepSize, player |-> step(pl, w, e),
          steps |-> 1]
    ELSE [accumulator |-> acc + dt, player |-> pl, steps |-> 0]

\* Physics.update(dt, player, world)
physicsUpdate(acc, pl, dt, w, e) == whileAccumulator(acc + dt, pl, 0, w, e)

\* new Player(scene): the camera at (16, 16, 16), at rest, no key held
newPlayer ==
    [position |-> Vector3(16 * XU, 16 * YU, 16 * XU),
     velocity |-> Vector3(0, 0, 0),
     input |-> [x |-> 0, z |-> 0],
     onGround |-> FALSE,
     yaw |-> 0]

----------------------------------------------------------------------------
(* The handlers that drive the world *)

\* the positions the player is at when a frame runs world.update
PlayerPositions == { <<-1, 1>>, <<1, 1>> }

\* the positions the player's ray selects
EditPositions ==
    { <<W + 1, H - 2, 1>>, <<W + 1, H - 1, 1>>, <<-1, H - 2, 1>> }

Op(op, x, y, z, id, pre, flag, res) ==
    [op |-> op, x |-> x, y |-> y, z |-> z, id |-> id, pre |-> pre,
     flag |-> flag, res |-> res]

\* save has not run
NoSave == [seed |-> Null, dataStore |-> NullData]

setWorld(w) ==
    \E r \in {renumber(reachable(w))} :
        /\ children' = r.children
        /\ chunks' = r.chunks
        /\ dataStore' = r.dataStore
        /\ idleQueue' = r.idleQueue
        /\ asyncLoading' = r.asyncLoading
        /\ seed' = r.seed

\* the world variables are those of w
setWorld0(w) ==
    LET r == renumber(reachable(w))
    IN  /\ children = r.children
        /\ chunks = r.chunks
        /\ dataStore = r.dataStore
        /\ idleQueue = r.idleQueue
        /\ asyncLoading = r.asyncLoading
        /\ seed = r.seed

\* the physics engine and the player as constructed
PhysicsIdle ==
    /\ accumulator = 0
    /\ player = newPlayer
    /\ engine = "kept"
    /\ start = newPlayer
    /\ total = 0
    /\ steps = 0

\* no Physics.update call is running
StepIdle ==
    /\ pc = "return"
    /\ candidateList = << >>
    /\ collisionList = << >>
    /\ processed = << >>
    /\ integrated = player
    /\ phases = << >>

\* the coordinate mapper at rest
CoordsIdle ==
    /\ query = <<0, 0, 0>>
    /\ result = worldToChunkCoords(0, 0, 0)

WorldNew ==
    /\ edited = [p \in EditPositions |-> Null]
    /\ children = << >>
    /\ chunks = << >>
    /\ dataStore = dsClear
    /\ idleQueue = << >>
    /\ asyncLoading = TRUE
    /\ seed = 0
    /\ last = Op("new", 0, 0, 0, 0, Null, FALSE, {})
    /\ localStorage = [params |-> NoItem, data |-> NoItem]
    /\ panelBound = TRUE
    /\ saved = NoSave

Init ==
    /\ CoordsIdle
    /\ PhysicsIdle
    /\ StepIdle
    /\ WorldNew

\* world.generate(): main.js:40 at start-up (and World.load)
Generate ==
    /\ setWorld(generate(World, FALSE))
    /\ last' = Op("generate", 0, 0, 0, 0, Cardinality(DOMAIN dataStore), FALSE, {})
    /\ UNCHANGED <<edited, coordVars, physVars, storeVars, stepVars>>

\* a control of the panel changes a value, and gui.onChange regenerates.
\* The seed control edits the params object the world was constructed with
\* (part_000:18), which load() replaces (world.js:88).
GuiChange(s, a) ==
    /\ (s # seed) # (a # asyncLoading)
    /\ setWorld(generate([World EXCEPT !.seed = IF panelBound THEN s ELSE @,
                                      !.asyncLoading = a], TRUE))
    /\ last' = Op("generate", 0, 0, 0, 0, Cardinality(DOMAIN dataStore), TRUE, {})
    /\ edited' = [p \in EditPositions |-> Null]
    /\ UNCHANGED <<coordVars, physVars, storeVars, stepVars>>

\* update at (px, pz) removes a chunk whose deferred generation is pending
overtaken(px, pz) ==
    \E i \in 1 .. Len(idleQueue) :
        /\ idleQueue[i] \in Range(children)
        /\ ~isVisible(World, getVisibleChunks(px, 0, pz), idleQueue[i])

\* one frame of animate: world.update(player)
Update(px, pz) ==
    /\ asyncLoading =>
          Len(idleQueue) + Len(getChunksToAdd(World, getVisibleChunks(px, 0, pz)))
             <= MaxIdle
    /\ setWorld(update(World, px, 0, pz))
    /\ last' = Op("update", px, 0, pz, 0, Null, overtaken(px, pz), {})
    /\ UNCHANGED <<edited, coordVars, physVars, storeVars, stepVars>>

\* the host runs the oldest idle callback: chunk.generate(), which with
\* params null raises a TypeError and leaves the chunk as it is
IdleCallback ==
    /\ idleQueue # << >>
    /\ \E id \in {Head(idleQueue)} :
       \E generated \in {IF seed = Null THEN chunks[id]
                         ELSE chunkGenerate(chunks[id], dataStore, seed)} :
       \E w \in {[World EXCEPT !.chunks[id] = generated, !.idleQueue = Tail(@)]} :
           /\ setWorld(w)
           /\ last' = Op("idle", chunks[id].x, 0, chunks[id].z, 0, Null,
                         id \in Range(children), generated.inst)
    /\ UNCHANGED <<edited, coordVars, physVars, storeVars, stepVars>>

\* the overlay has, or has room for, an entry at world position p
roomFor(p) ==
    LET coords == worldToChunkCoords(p[1], p[2], p[3])
    IN  \/ Cardinality(DOMAIN dataStore) < MaxOverlay
        \/ dsContains(dataStore, coords.chunk.x, coords.chunk.z,
                      coords.block.x, coords.block.y, coords.block.z)

\* onMouseDown with a block selected in the toolbar
AddBlock(p, blockId) ==
    /\ roomFor(p)
    /\ setWorld(addBlock(World, p[1], p[2], p[3], blockId))
    /\ last' = Op("addBlock", p[1], p[2], p[3], blockId,
                  getBlock(World, p[1], p[2], p[3]), FALSE, {})
    /\ edited' = IF getBlock(World, p[1], p[2], p[3]) = EmptyId
                 THEN [edited EXCEPT ![p] = blockId] ELSE edited
    /\ UNCHANGED <<coordVars, physVars, storeVars, stepVars>>

\* onMouseDown with the pickaxe (the empty block) selected
RemoveBlock(p) ==
    /\ roomFor(p)
    /\ setWorld(removeBlock(World, p[1], p[2], p[3]))
    /\ last' = Op("removeBlock", p[1], p[2], p[3], EmptyId,
                  getBlock(World, p[1], p[2], p[3]), FALSE, {})
    /\ edited' = IF getBlock(World, p[1], p[2], p[3]) \notin {Null, EmptyId}
                 THEN [edited EXCEPT ![p] = EmptyId] ELSE edited
    /\ UNCHANGED <<coordVars, physVars, storeVars, stepVars>>

\* the edit the overlay holds for edit position p, or none
overlayAt(ds, p) ==
    LET coords == worldToChunkCoords(p[1], p[2], p[3])
    IN  IF dsContains(ds, coords.chunk.x, coords.chunk.z,
                      coords.block.x, coords.block.y, coords.block.z)
        THEN dsGet(ds, coords.chunk.x, coords.chunk.z,
                   coords.block.x, coords.block.y, coords.block.z)
        ELSE Null

\* keydown "o": this.save()
Save ==
    /\ localStorage' = save(World)
    /\ saved' = [seed |-> seed, dataStore |-> dataStore]
    /\ last' = Op("save", 0, 0, 0, 0, Null, FALSE, {})
    /\ UNCHANGED <<children, chunks, dataStore, idleQueue, asyncLoading, seed,
                   edited, panelBound, coordVars, physVars, stepVars>>

\* keydown "l": this.load(); last keeps the params and the overlay the call
\* found, and whether an item was missing
Load ==
    /\ setWorld(load(World, localStorage))
    /\ last' = Op("load", 0, 0, 0, seed, Null,
                  "none" \in {localStorage.params.kind, localStorage.data.kind},
                  dataStore)
    /\ edited' = [p \in EditPositions |->
                     overlayAt(parseData(localStorage.data), p)]
    /\ panelBound' = FALSE
    /\ UNCHANGED <<localStorage, saved, coordVars, physVars, stepVars>>

Next ==
    \/ Generate
    \/ \E s \in Seeds, a \in BOOLEAN : GuiChange(s, a)
    \/ \E p \in PlayerPositions : Update(p[1], p[2])
    \/ IdleCallback
    \/ \E p \in EditPositions, blockId \in PlaceIds : AddBlock(p, blockId)
    \/ \E p \in EditPositions : RemoveBlock(p)

Spec == Init /\ [][Next]_vars

\* The streaming alone: generate, the panel, the frames and the idle
\* callbacks.  requestIdleCallback(chunk.generate.bind(chunk), {timeout:
\* 1000}): the host runs a callback that waits, after one second at the
\* latest.
NextIdle ==
    \/ Generate
    \/ \E s \in Seeds, a \in BOOLEAN : GuiChange(s, a)
    \/ \E p \in PlayerPositions : Update(p[1], p[2])
    \/ IdleCallback

SpecIdle == Init /\ [][NextIdle]_vars /\ WF_vars(IdleCallback)

\* the streaming with the keys o and l
NextLoad ==
    \/ NextIdle
    \/ Save
    \/ Load

SpecLoad == Init /\ [][NextLoad]_vars

----------------------------------------------------------------------------
(* The world with its persistence: edits, the panel, save and load *)

\* the positions edited between a save and a load
StoreEditPositions == { <<W + 1, H - 1, 1>>, <<-1, H - 2, 1>> }

NextStore ==
    \/ Generate
    \/ \E s \in Seeds : GuiChange(s, asyncLoading)
    \/ \E p \in StoreEditPositions, blockId \in PlaceIds : AddBlock(p, blockId)
    \/ \E p \in StoreEditPositions : RemoveBlock(p)
    \/ Save
    \/ Load

SpecStore == Init /\ [][NextStore]_vars

----------------------------------------------------------------------------
(* The coordinate mapper on its own: every integer coordinate of a range *)

\* the range of world x and z the mapper is checked on
MaxCoord == 7

QueryRange == (-MaxCoord .. MaxCoord) \X (0 .. H - 1) \X (-MaxCoord .. MaxCoord)

\* no conversion has run yet for the query
NoCoords == [chunk |-> [x |-> 0, z |-> 0], block |-> [x |-> Null, y |-> Null, z |-> Null]]

InitCoords ==
    /\ WorldNew
    /\ PhysicsIdle
    /\ StepIdle
    /\ query \in QueryRange
    /\ result = NoCoords

\* a caller asks for another coordinate
Ask(q) ==
    /\ query' = q
    /\ result' = NoCoords
    /\ UNCHANGED <<worldVars, physVars, storeVars, stepVars>>

\* this.worldToChunkCoords(x, y, z)
Convert ==
    /\ result = NoCoords
    /\ result' = worldToChunkCoords(query[1], query[2], query[3])
    /\ UNCHANGED <<query, worldVars, physVars, storeVars, stepVars>>

NextCoords ==
    \/ \E q \in QueryRange : Ask(q)
    \/ Convert

SpecCoords == InitCoords /\ [][NextCoords]_vars

----------------------------------------------------------------------------
(* The physics loop on a generated world *)

\* the longest frame time, in milliseconds
MaxDt == 9
\* the simulated time of a run, in milliseconds
MaxTotal == 40

\* the column (x, z) the player starts in
StartColumn == <<0, 1>>

\* the y of the camera of a player standing on the start column
standingY(s) ==
    LET top == IF Terrain(s, StartColumn[1], H - 1, StartColumn[2]) # EmptyId THEN H - 1
               ELSE H - 2
    IN  top * YU + YU \div 2 + height

\* the player when the simulation begins: standing, jumping off, or in the
\* last step of a fall from the height of 16 blocks, with a key held or none
StartPlayers(s) ==
    { [position |-> Vector3(StartColumn[1] * XU, standingY(s) + m.drop,
                             StartColumn[2] * XU),
       velocity |-> Vector3(0, m.vy, 0),
       input |-> [x |-> ix * VU, z |-> 0],
       onGround |-> m.onGround,
       yaw |-> 0] :
        m \in { [drop |-> 0, vy |-> 0, onGround |-> TRUE],
                [drop |-> 0, vy |-> jumpSpeed * VU, onGround |-> TRUE],
                [drop |-> 9558, vy |-> -14208, onGround |-> FALSE] },
        ix \in {-maxSpeed, 0, maxSpeed} }

\* main.js:40: the world after world.generate()
InitPhysics ==
    /\ CoordsIdle
    /\ \E s \in Seeds :
        /\ setWorld0(generate([children |-> << >>, chunks |-> << >>,
                               dataStore |-> dsClear, idleQueue |-> << >>,
                               asyncLoading |-> TRUE, seed |-> s], FALSE))
        /\ player \in StartPlayers(s)
    /\ last = Op("generate", 0, 0, 0, 0, 0, FALSE, {})
    /\ edited = [p \in EditPositions |-> Null]
    /\ localStorage = [params |-> NoItem, data |-> NoItem]
    /\ panelBound = TRUE
    /\ saved = NoSave
    /\ engine \in {"kept", "descending"}
    /\ start = player
    /\ accumulator = 0
    /\ total = 0
    /\ steps = 0
    /\ StepIdle

\* one frame of animate: physics.update(dt, player, world)
PhysicsUpdate(dt) ==
    /\ total + dt <= MaxTotal
    /\ LET r == physicsUpdate(accumulator, player, dt, World, engine)
       IN  /\ accumulator' = r.accumulator
           /\ player' = r.player
           /\ steps' = steps + r.steps
    /\ total' = total + dt
    /\ UNCHANGED <<engine, start, worldVars, coordVars, storeVars, stepVars>>

NextPhysics == \E dt \in 0 .. MaxDt : PhysicsUpdate(dt)

SpecPhysics == InitPhysics /\ [][NextPhysics]_vars

----------------------------------------------------------------------------
(* One Physics.update call, phase by phase, at the streaming frontier *)

\* the simulated time of a run, in milliseconds
MaxStepTotal == 8

\* generate(), then an update(player) with asyncLoading that moved the
\* square one chunk to -x: the chunks x = -2 wait for their idle callbacks,
\* the chunks x = 1 are gone
frontierWorld(s) ==
    update(generate([children |-> << >>, chunks |-> << >>,
                     dataStore |-> dsClear, idleQueue |-> << >>,
                     asyncLoading |-> TRUE, seed |-> s], FALSE),
           -1, 0, 1)

\* how far from the centre of its column a player beside a neighbour column
\* stands: the cylinder reaches over the neighbour
Beside == (2 * XU) \div 5

\* the y of the camera of a player standing on column (x, z)
standingAt(s, x, z) ==
    LET top == IF Terrain(s, x, H - 1, z) # EmptyId THEN H - 1 ELSE H - 2
    IN  top * YU + YU \div 2 + height

\* the player when a frame begins, on the line z = 1: at column x, off
\* units from its centre, the camera drop above standing height
playerAt(s, x, off, drop, vy, ix, ground) ==
    [position |-> Vector3(x * XU + off, standingAt(s, x, 1) + drop, XU),
     velocity |-> Vector3(0, vy, 0),
     input |-> [x |-> ix * VU, z |-> 0],
     onGround |-> ground,
     yaw |-> 0]

\* Standing, jumping off and landing in the loaded chunk 0, beside a
\* neighbour column or on the centre; walking towards the waiting chunk -2
\* and towards the missing chunk 1; after a teleport (key r) or a long
\* frame, falling where the terrain of the waiting chunk will be; and,
\* the camera turned a quarter turn to the left or to the right, walking
\* forward (key w) or backward (key s) against the neighbour column.
StepPlayers(s) ==
    { playerAt(s, 0, off, 0, 0, ix, TRUE) :
          off \in {-Beside, 0}, ix \in {-maxSpeed, 0} }
    \cup { playerAt(s, 0, off, 0, jumpSpeed * VU, 0, TRUE) :
              off \in {-Beside, 0} }
    \cup { playerAt(s, 0, off, 9558, -14208, ix, FALSE) :
              off \in {-Beside, 0}, ix \in {-maxSpeed, 0} }
    \cup { playerAt(s, -W, -Beside, 0, 0, -maxSpeed, TRUE),
           playerAt(s, W - 1, Beside, 0, 0, maxSpeed, TRUE),
           playerAt(s, -W - 1, 0, 9558, -14208, 0, FALSE),
           [playerAt(s, -W - 1, 0, 0, -14208, 0, FALSE)
               EXCEPT !.position.y = (3 * YU) \div 4],
           [playerAt(s, 0, -Beside, 0, 0, 0, TRUE)
               EXCEPT !.yaw = 1, !.input.z = maxSpeed * VU],
           [playerAt(s, 0, -Beside, 9558, -14208, 0, FALSE)
               EXCEPT !.yaw = 3, !.input.z = -maxSpeed * VU] }

InitStep ==
    /\ CoordsIdle
    /\ \E s \in Seeds :
        /\ setWorld0(frontierWorld(s))
        /\ player \in StepPlayers(s)
    /\ last = Op("update", -1, 0, 1, 0, Null, FALSE, {})
    /\ edited = [p \in EditPositions |-> Null]
    /\ localStorage = [params |-> NoItem, data |-> NoItem]
    /\ panelBound = TRUE
    /\ saved = NoSave
    /\ engine \in {"kept", "descending"}
    /\ start = player
    /\ accumulator = 0
    /\ total = 0
    /\ steps = 0
    /\ StepIdle

\* the statements of the loop body of update, detectCollisions inlined, in
\* the order of the text
bodyOrder ==
    <<"gravity", "inputs", "reset", "broad", "narrow", "resolve", "subtract">>

\* a loop body that detects and resolves before it integrates
phaseAfterDetectFirst(p, collided) ==
    CASE p = "gravity" -> "reset"
      [] p = "reset" -> "broad"
      [] p = "broad" -> "narrow"
      [] p = "narrow" -> IF collided THEN "resolve" ELSE "inputs"
      [] p = "resolve" -> "inputs"
      [] p = "inputs" -> "subtract"

\* the statement that runs after statement p; resolveCollisions is skipped
\* when narrowPhase returned no collision
phaseAfter(p, collided) ==
    IF p = "narrow" /\ ~collided THEN "subtract"
    ELSE LET i == CHOOSE i \in 1 .. Len(bodyOrder) : bodyOrder[i] = p
         IN  bodyOrder[i + 1]

\* frame keeps what the phase leaves alone
phaseDone(p, collided) ==
    /\ pc' = phaseAfter(p, collided)
    /\ phases' = Append(phases, p)
    /\ UNCHANGED <<accumulator, engine, start, total, steps, worldVars,
                   coordVars, storeVars>>

\* physics.update(dt, player, world) is called: this.accumulator += dt
Call(dt) ==
    /\ pc = "return"
    /\ total + dt <= MaxStepTotal
    /\ accumulator' = accumulator + dt
    /\ total' = total + dt
    /\ pc' = "while"
    /\ UNCHANGED <<player, engine, start, steps, candidateList, collisionList,
                   processed, integrated, phases, worldVars, coordVars,
                   storeVars>>

\* while (this.accumulator >= this.stepSize)
LoopTest ==
    /\ pc = "while"
    /\ pc' = IF accumulator >= stepSize THEN bodyOrder[1] ELSE "return"
    /\ start' = player
    /\ integrated' = player
    /\ phases' = << >>
    /\ candidateList' = << >>
    /\ collisionList' = << >>
    /\ processed' = << >>
    /\ UNCHANGED <<accumulator, player, engine, total, steps, worldVars,
                   coordVars, storeVars>>

\* player.velocity.y -= this.gravity * this.stepSize
Gravity ==
    /\ pc = "gravity"
    /\ player' = [player EXCEPT
                     !.velocity.y = @ - (gravity * VU * stepSize) \div 1000]
    /\ phaseDone("gravity", FALSE)
    /\ UNCHANGED <<candidateList, collisionList, processed, integrated>>

\* player.applyInputs(this.stepSize)
ApplyInputs ==
    /\ pc = "inputs"
    /\ player' = applyInputs(player, stepSize)
    /\ integrated' = player'
    /\ phaseDone("inputs", FALSE)
    /\ UNCHANGED <<candidateList, collisionList, processed>>

\* player.onGround = false
ResetGround ==
    /\ pc = "reset"
    /\ player' = [player EXCEPT !.onGround = FALSE]
    /\ phaseDone("reset", FALSE)
    /\ UNCHANGED <<candidateList, collisionList, processed, integrated>>

\* const candidates = this.broadPhase(player, world)
BroadPhase ==
    /\ pc = "broad"
    /\ candidateList' = broadPhase(player, World)
    /\ phaseDone("broad", FALSE)
    /\ UNCHANGED <<player, collisionList, processed, integrated>>

\* const collisions = this.narrowPhase(candidates, player)
NarrowPhase ==
    /\ pc = "narrow"
    /\ collisionList' = narrowPhase(candidateList, player)
    /\ player' = [player EXCEPT
                     !.onGround = @ \/ narrowPhaseOnGround(candidateList, player)]
    /\ phaseDone("narrow", Len(narrowPhase(candidateList, player)) > 0)
    /\ UNCHANGED <<candidateList, processed, integrated>>

\* this.resolveCollisions(collisions, player)
Resolve ==
    /\ pc = "resolve"
    /\ processed' = sortCollisions(collisionList, engine)
    /\ player' = resolveCollisions(collisionList, player, engine)
    /\ phaseDone("resolve", TRUE)
    /\ UNCHANGED <<candidateList, collisionList, integrated>>

\* this.accumulator -= this.stepSize
Subtract ==
    /\ pc = "subtract"
    /\ accumulator' = accumulator - stepSize
    /\ steps' = steps + 1
    /\ pc' = "while"
    /\ phases' = Append(phases, "subtract")
    /\ UNCHANGED <<player, engine, start, total, candidateList, collisionList,
                   processed, integrated, worldVars, coordVars, storeVars>>

\* between two frames the host runs the oldest idle callback
FrameIdleCallback ==
    /\ pc = "return"
    /\ IdleCallback

\* between two frames the player, looking down, places a block at the
\* position above the column it stands on (main.js:86-93)
FramePlaceBlock ==
    /\ pc = "return"
    /\ \E blockId \in PlaceIds : AddBlock(<<0, H - 1, 1>>, blockId)

NextStep ==
    \/ \E dt \in {stepSize, 2 * stepSize} : Call(dt)
    \/ LoopTest
    \/ Gravity
    \/ ApplyInputs
    \/ ResetGround
    \/ BroadPhase
    \/ NarrowPhase
    \/ Resolve
    \/ Subtract
    \/ FrameIdleCallback
    \/ FramePlaceBlock

SpecStep == InitStep /\ [][NextStep]_vars

----------------------------------------------------------------------------
(* Edits at the border of the world: the streaming frontier of the section  *)
(* above, the player's ray on the blocks on both sides of a chunk border    *)

\* the last column of chunk 0 and the first of chunk 1, which the world does
\* not hold until the player comes back; the last column of chunk -2, whose
\* chunk waits for its idle callback
EdgePositions ==
    { <<W - 1, H - 2, 1>>, <<W, H - 2, 1>>, <<W, H - 1, 1>>,
      <<-W - 1, H - 2, 1>> }

InitEdge ==
    /\ CoordsIdle
    /\ PhysicsIdle
    /\ StepIdle
    /\ \E s \in Seeds : setWorld0(frontierWorld(s))
    /\ last = Op("update", -1, 0, 1, 0, Null, FALSE, {})
    /\ edited = [p \in EditPositions |-> Null]
    /\ localStorage = [params |-> NoItem, data |-> NoItem]
    /\ panelBound = TRUE
    /\ saved = NoSave

\* onMouseDown with a block selected, the ray on an edge position
EdgeAddBlock(p, blockId) ==
    /\ roomFor(p)
    /\ setWorld(addBlock(World, p[1], p[2], p[3], blockId))
    /\ last' = Op("addBlock", p[1], p[2], p[3], blockId,
                  getBlock(World, p[1], p[2], p[3]), FALSE, {})
    /\ UNCHANGED <<edited, coordVars, physVars, storeVars, stepVars>>

\* onMouseDown with the pickaxe selected, the ray on an edge position
EdgeRemoveBlock(p) ==
    /\ roomFor(p)
    /\ setWorld(removeBlock(World, p[1], p[2], p[3]))
    /\ last' = Op("removeBlock", p[1], p[2], p[3], EmptyId,
                  getBlock(World, p[1], p[2], p[3]), FALSE, {})
    /\ UNCHANGED <<edited, coordVars, physVars, storeVars, stepVars>>

NextEdge ==
    \/ \E p \in EdgePositions, blockId \in PlaceIds : EdgeAddBlock(p, blockId)
    \/ \E p \in EdgePositions : EdgeRemoveBlock(p)
    \/ \E p \in PlayerPositions : Update(p[1], p[2])
    \/ IdleCallback

SpecEdge == InitEdge /\ [][NextEdge]_vars

----------------------------------------------------------------------------
(* The physics loop frame after frame, for a player with no key held *)

\* the frame times, in milliseconds: less than a step, a step, two steps
\* and a rest
RestDts == {1, stepSize, 2 * stepSize + 1}

\* no key held, above the block of column 0: standing, jumping off, let go
\* one block above it, and in the last step of a fall of 16 blocks; on the
\* centre of the column or beside it
RestPlayers(s) ==
    { playerAt(s, 0, off, m.drop, m.vy, 0, m.onGround) :
        off \in {-Beside, 0},
        m \in { [drop |-> 0, vy |-> 0, onGround |-> TRUE],
                [drop |-> 0, vy |-> jumpSpeed * VU, onGround |-> TRUE],
                [drop |-> YU, vy |-> 0, onGround |-> FALSE],
                [drop |-> 9558, vy |-> -14208, onGround |-> FALSE] } }

InitRest ==
    /\ CoordsIdle
    /\ \E s \in Seeds :
        /\ setWorld0(generate([children |-> << >>, chunks |-> << >>,
                               dataStore |-> dsClear, idleQueue |-> << >>,
                               asyncLoading |-> TRUE, seed |-> s], FALSE))
        /\ player \in RestPlayers(s)
    /\ last = Op("generate", 0, 0, 0, 0, 0, FALSE, {})
    /\ edited = [p \in EditPositions |-> Null]
    /\ localStorage = [params |-> NoItem, data |-> NoItem]
    /\ panelBound = TRUE
    /\ saved = NoSave
    /\ engine \in {"kept", "descending"}
    /\ start = player
    /\ accumulator = 0
    /\ total = 0
    /\ steps = 0
    /\ StepIdle

\* physics.update(dt, player, world) is called, the time of the run not
\* counted
RestCall(dt) ==
    /\ pc = "return"
    /\ accumulator' = accumulator + dt
    /\ pc' = "while"
    /\ UNCHANGED <<player, engine, start, total, steps, candidateList,
                   collisionList, processed, integrated, phases, worldVars,
                   coordVars, storeVars>>

\* this.accumulator -= this.stepSize, the steps of the run not counted
RestSubtract ==
    /\ pc = "subtract"
    /\ accumulator' = accumulator - stepSize
    /\ pc' = "while"
    /\ phases' = Append(phases, "subtract")
    /\ UNCHANGED <<player, engine, start, total, steps, candidateList,
                   collisionList, processed, integrated, worldVars, coordVars,
                   storeVars>>

NextRest ==
    \/ \E dt \in RestDts : RestCall(dt)
    \/ LoopTest
    \/ Gravity
    \/ ApplyInputs
    \/ ResetGround
    \/ BroadPhase
    \/ NarrowPhase
    \/ Resolve
    \/ RestSubtract

\* requestAnimationFrame(animate) asks for the next frame in every frame
\* (main.js:106) and a call of update runs to its end, so the statements
\* keep coming
SpecRest == InitRest /\ [][NextRest]_vars /\ WF_vars(NextRest)

----------------------------------------------------------------------------
(* Properties *)

\* the chunk coordinates the world holds
childCoords ==
    { <<chunks[children[i]].x, chunks[children[i]].z>> : i \in 1 .. Len(children) }

\* the square of radius drawDistance around chunk (ocx, ocz)
Square(ocx, ocz) ==
    (ocx - drawDistance .. ocx + drawDistance)
        \X (ocz - drawDistance .. ocz + drawDistance)

\* some chunk the world holds owns world position p and is loaded
ownerLoaded(p) ==
    \E i \in 1 .. Len(children) :
        /\ chunks[children[i]].x = p[1] \div W
        /\ chunks[children[i]].z = p[3] \div W
        /\ chunks[children[i]].loaded

\* C1: when World.update(player) has returned, the chunk coordinates the world
\* holds are exactly the square of radius drawDistance around the chunk
\* (floor(player.x / W), floor(player.z / W)).
C1_StreamingSquare ==
    last.op = "update" => childCoords = Square(last.x \div W, last.z \div W)

\* an update with asyncLoading that moved the square to the player's chunk
\* (-1, 0): it removed a chunk whose deferred generation is still pending
\* and scheduled the generations of the chunks it created
C1_Witness ==
    /\ last.op = "update"
    /\ last.x = -1
    /\ asyncLoading
    /\ last.flag
    /\ childCoords = Square(-1, 0)
    /\ \E i \in 1 .. Len(idleQueue) : idleQueue[i] \notin Range(children)
    /\ \E i \in 1 .. Len(idleQueue) : idleQueue[i] \in Range(children)

\* C2: worldToChunkCoords round trip: W*cx + lx = x, W*cz + lz = z, ly = y,
\* and 0 <= lx < W, 0 <= lz < W, for every integer coordinate, negative too.
C2_RoundTrip ==
    result # NoCoords =>
        /\ W * result.chunk.x + result.block.x = query[1]
        /\ W * result.chunk.z + result.block.z = query[3]
        /\ result.block.y = query[2]
        /\ 0 <= result.block.x /\ result.block.x < W
        /\ 0 <= result.block.z /\ result.block.z < W

\* a conversion of a coordinate with negative x and z, not a multiple of W
C2_Witness ==
    /\ result # NoCoords
    /\ query[1] = -W - 1
    /\ query[3] = -1
    /\ result.chunk.x = -2
    /\ result.block.x = W - 1

\* C3: an edit that succeeded at p is what getBlock(p) returns whenever the
\* owning chunk is loaded, through unloads, (deferred) regenerations and
\* generate(false); only generate(true) discards it.
C3_EditsSurvive ==
    \A p \in EditPositions :
        (edited[p] # Null /\ ownerLoaded(p)) =>
            getBlock(World, p[1], p[2], p[3]) = edited[p]

\* the deferred generation of a chunk that an update created anew has just
\* run, the chunk owns an earlier edit that differs from the procedural
\* block, and getBlock returns the edit
C3_Witness ==
    /\ last.op = "idle"
    /\ last.flag
    /\ \E p \in EditPositions :
        /\ edited[p] # Null
        /\ edited[p] # Terrain(seed, p[1], p[2], p[3])
        /\ p[1] \div W = last.x
        /\ p[3] \div W = last.z
        /\ getBlock(World, p[1], p[2], p[3]) = edited[p]

\* the six face-adjacent neighbours of world position (x, y, z)
Neighbors(x, y, z) ==
    { <<x - 1, y, z>>, <<x + 1, y, z>>, <<x, y - 1, z>>, <<x, y + 1, z>>,
      <<x, y, z - 1>>, <<x, y, z + 1>> }

\* the block of chunk c at cell i has an empty neighbour in the world, a
\* neighbour in no loaded chunk (or off the grid) counting as empty
exposed(c, i) ==
    \E n \in Neighbors(W * c.x + cellX(i), cellY(i), W * c.z + cellZ(i)) :
        getBlock(World, n[1], n[2], n[3]) \in {Null, EmptyId}

\* C4: after any addBlock / removeBlock call, a position of a loaded chunk
\* has a render instance iff its block is non-empty and one of its six
\* neighbours in the world is empty.
C4_VisibleInstances ==
    last.op \in {"addBlock", "removeBlock"} =>
        \A k \in 1 .. Len(children) :
            LET c == chunks[children[k]]
            IN  c.loaded =>
                    \A i \in Cells :
                        (i \in c.inst) <=> (c.data[i] # EmptyId /\ exposed(c, i))

\* C5: addBlock(p, t) on an empty block of a loaded chunk makes getBlock(p)
\* return t; removeBlock(p) on a non-empty block makes it return empty.
C5_WriteThenRead ==
    /\ (last.op = "addBlock" /\ last.pre = EmptyId) =>
            getBlock(World, last.x, last.y, last.z) = last.id
    /\ (last.op = "removeBlock" /\ last.pre \notin {Null, EmptyId}) =>
            getBlock(World, last.x, last.y, last.z) = EmptyId

\* a block added at a negative x, where another one had been removed
C5_Witness ==
    /\ last.op = "addBlock"
    /\ last.pre = EmptyId
    /\ last.x < 0
    /\ getBlock(World, last.x, last.y, last.z) = last.id

\* C6: addBlock on an occupied position and removeBlock on an empty position
\* leave every chunk (voxels and instance table) and the overlay unchanged.
C6_InvalidMutationNoChange ==
    [][ ( \/ (last'.op = "addBlock" /\ last'.pre \notin {Null, EmptyId})
          \/ (last'.op = "removeBlock" /\ last'.pre = EmptyId) )
        => (chunks' = chunks /\ children' = children /\ dataStore' = dataStore)
      ]_vars

\* addBlock was rejected next to a block that is obscured and has no
\* instance, and whose visibility the call re-evaluated
C6_Witness ==
    /\ last.op = "addBlock"
    /\ last.pre \notin {Null, EmptyId}
    /\ last.y = H - 1
    /\ LET c == worldToChunkCoords(last.x, last.y - 1, last.z)
           chunk == getChunk(World, c.chunk.x, c.chunk.z)
       IN  /\ chunk # NoChunk
           /\ isBlockObscured(chunks[chunk], c.block.x, c.block.y, c.block.z)

\* C7: after generate(true) the overlay is empty and every chunk of the world
\* is loaded with the procedural block at every position.
C7_GenerateTrueIsProcedural ==
    (last.op = "generate" /\ last.flag) =>
        /\ dataStore = dsClear
        /\ \A k \in 1 .. Len(children) :
            LET c == chunks[children[k]]
            IN  /\ c.loaded
                /\ \A i \in Cells :
                      c.data[i] = Terrain(seed, W * c.x + cellX(i), cellY(i),
                                          W * c.z + cellZ(i))

\* generate(true) ran on a world whose overlay held edits
C7_Witness ==
    /\ last.op = "generate"
    /\ last.flag
    /\ last.pre > 0
    /\ children # << >>
    /\ dataStore = dsClear

\* the world positions getBlock is probed at: chunks -2 .. 2 in x and z
Probes ==
    { <<x, H - 2, z>> : x \in {-W - 1, -1, 1, W + 1, 2 * W + 1},
                        z \in {-W - 1, 1, 2 * W + 1} }

\* C8: getBlock returns null when the owning chunk is not in the world or is
\* not loaded, so for every chunk whose deferred generation is pending.
C8_NullWhenNotLoaded ==
    \A p \in Probes :
        ~ownerLoaded(p) => getBlock(World, p[1], p[2], p[3]) = Null

\* a chunk the world holds is waiting for its deferred generation, a probe
\* lies in it, and another probe lies in a loaded chunk and finds a block
C8_Witness ==
    /\ \E p \in Probes, i \in 1 .. Len(idleQueue) :
        /\ idleQueue[i] \in Range(children)
        /\ chunks[idleQueue[i]].x = p[1] \div W
        /\ chunks[idleQueue[i]].z = p[3] \div W
        /\ getBlock(World, p[1], p[2], p[3]) = Null
    /\ \E p \in Probes : getBlock(World, p[1], p[2], p[3]) \notin {Null, EmptyId}

\* C10: a deferred generation that completes on a chunk the world no longer
\* holds leaves that chunk with no render instances.
C10_DetachedChunkReleased ==
    (last.op = "idle" /\ ~last.flag) => last.res = {}

\* C9: Physics.update calls whose dt sum to k * stepSize have run exactly k
\* steps and leave the accumulator and the player as the single call
\* update(k * stepSize) from the same start leaves them.
C9_FixedStepDeterminism ==
    total % stepSize = 0 =>
        LET single == physicsUpdate(0, start, total, World, engine)
        IN  /\ steps = total \div stepSize
            /\ single.steps = steps
            /\ accumulator = single.accumulator
            /\ player = single.player

\* frames that were no multiples of the step added up to several steps, and
\* the player met terrain on the way
C9_Witness ==
    /\ total % stepSize = 0
    /\ steps >= 3
    /\ player.onGround
    /\ player.position # start.position
    /\ accumulator = 0

\* C11: a load() that finds an item of the snapshot missing leaves
\* World.params and the overlay as the call found them.
C11_FailedLoadKeepsState ==
    (last.op = "load" /\ last.flag) =>
        /\ seed = last.id
        /\ dataStore = last.res

\* the world holds the chunks of the square around the origin, each loaded
\* with the overlay entry ds holds for a position, else the terrain of seed s
regeneratedFrom(s, ds) ==
    /\ Len(children) = Cardinality(Square(0, 0))
    /\ childCoords = Square(0, 0)
    /\ \A k \in 1 .. Len(children) :
          LET c == chunks[children[k]]
          IN  /\ c.loaded
              /\ \A i \in Cells :
                    c.data[i] =
                      IF <<c.x, c.z, cellX(i), cellY(i), cellZ(i)>> \in DOMAIN ds
                      THEN ds[<<c.x, c.z, cellX(i), cellY(i), cellZ(i)>>]
                      ELSE Terrain(s, W * c.x + cellX(i), cellY(i),
                                   W * c.z + cellZ(i))

\* C12: when load() has returned after a save(), whatever edits and
\* parameter changes came between them, World.params and the overlay are
\* what they were when save() ran, with no entry made after the save, and
\* the world holds the chunks generated from them.
C12_SaveLoadRoundTrip ==
    (last.op = "load" /\ localStorage.params.kind # "none") =>
        /\ seed = saved.seed
        /\ dataStore = saved.dataStore
        /\ regeneratedFrom(saved.seed, saved.dataStore)

\* The round trip of a save() made while World.params was an object: the
\* statement of C12 for every snapshot but the one of a world that a load()
\* without snapshot had left with null params.
RoundTripOfObjectParams ==
    (last.op = "load" /\ localStorage.params.kind = "object") =>
        /\ seed = saved.seed
        /\ dataStore = saved.dataStore
        /\ regeneratedFrom(saved.seed, saved.dataStore)

\* a load() restored a snapshot with an edit in it, over a world that had
\* another seed and an overlay with other entries
RoundTripReached ==
    /\ last.op = "load"
    /\ localStorage.params.kind = "object"
    /\ saved.dataStore # dsClear
    /\ last.id \in Seeds \ {saved.seed}
    /\ DOMAIN last.res \ DOMAIN saved.dataStore # {}
    /\ seed = saved.seed
    /\ dataStore = saved.dataStore

\* C20: a Physics.update(dt) call with dt >= 0 runs exactly
\* floor((accumulator before + dt) / stepSize) steps, takes stepSize from the
\* accumulator for each, and returns with 0 <= accumulator < stepSize; the
\* time left over is carried to the next call.
C20_AccumulatorInvariant ==
    [][LET dt == total' - total
           ran == steps' - steps
       IN  /\ dt >= 0
           /\ ran = (accumulator + dt) \div stepSize
           /\ accumulator' = accumulator + dt - stepSize * ran
           /\ 0 <= accumulator'
           /\ accumulator' < stepSize]_vars

\* after two calls or more, two steps or more have run and time is left over
C20_Witness ==
    /\ total > MaxDt
    /\ steps >= 2
    /\ accumulator > 0
    /\ accumulator + stepSize * steps = total

\* the block positions around every place the player is at: the chunks
\* -2 .. 1 in x, one layer below and above the chunk height
Region ==
    { Vector3(x, y, z) : x \in -2 * W .. 2 * W - 1, y \in -1 .. H, z \in 0 .. W - 1 }

\* the block at b is a block of a loaded chunk and is not empty
solidBlock(b) == getBlock(World, b.x, b.y, b.z) \notin {Null, EmptyId}

\* C13: every non-empty block of a loaded chunk whose closest point to the
\* cylinder axis lies strictly inside the bounding cylinder is within the
\* extents of broadPhase and is one of the candidates it returns.
C13_BroadPhaseComplete ==
    pc = "narrow" =>
        \A b \in Region :
            (solidBlock(b) /\ contact(b, player).inside) =>
                \E i \in 1 .. Len(candidateList) : candidateList[i] = b

\* broadPhase returned blocks that pass the narrow-phase test, among them one
\* below the feet and one beside the head, and blocks that do not pass it
C13_Witness ==
    /\ pc = "narrow"
    /\ \E i, j, k \in 1 .. Len(candidateList) :
          /\ contact(candidateList[i], player).inside
          /\ contact(candidateList[i], player).vertical
          /\ contact(candidateList[j], player).inside
          /\ ~contact(candidateList[j], player).vertical
          /\ candidateList[j].x # candidateList[i].x
          /\ ~contact(candidateList[k], player).inside

\* the chunk that owns block position b is in the world and loaded
blockLoaded(b) == ownerLoaded(<<b.x, b.y, b.z>>)

\* C14: a position whose chunk is absent or not yet loaded is never a
\* broad-phase candidate or a collision, and a step of a player whose
\* extents lie in such chunks only leaves position and velocity as gravity
\* and the inputs made them, with onGround false.
C14_NoPhantomCollisions ==
    /\ \A i \in 1 .. Len(candidateList) : blockLoaded(candidateList[i])
    /\ \A i \in 1 .. Len(collisionList) : blockLoaded(collisionList[i].block)
    /\ (pc = "subtract"
          /\ \A i \in 1 .. Len(extentsBox(integrated)) :
                ~blockLoaded(extentsBox(integrated)[i])) =>
            player = [integrated EXCEPT !.onGround = FALSE]

\* a step has ended for a player whose cylinder lies in the terrain a
\* waiting chunk will hold, beside a loaded chunk whose blocks are the only
\* candidates: no collision, no change
C14_Witness ==
    /\ pc = "subtract"
    /\ \E i \in 1 .. Len(extentsBox(integrated)) :
          LET b == extentsBox(integrated)[i]
          IN  /\ ~blockLoaded(b)
              /\ b.y \in 0 .. H - 2
              /\ contact(b, integrated).inside
              /\ \E k \in 1 .. Len(idleQueue) :
                    /\ idleQueue[k] \in Range(children)
                    /\ chunks[idleQueue[k]].x = b.x \div W
                    /\ chunks[idleQueue[k]].z = b.z \div W
    /\ candidateList # << >>
    /\ collisionList = << >>
    /\ player = [integrated EXCEPT !.onGround = FALSE]

\* the record i of the pass has the smallest overlap
smallest(i) ==
    \A j \in 1 .. Len(collisionList) :
        collisionList[i].overlap <= collisionList[j].overlap

\* C15: when resolveCollisions has finished a pass over one collision or
\* more, the contact point of the record with the smallest overlap is not
\* inside the bounding cylinder of the player where the pass left it.
C15_SmallestResolved ==
    (pc = "subtract" /\ collisionList # << >>) =>
        \E i \in 1 .. Len(collisionList) :
            /\ smallest(i)
            /\ ~pointInPlayerBoundingCylinder(collisionList[i].contactPoint,
                                              player)

\* C17: at the end of a step onGround is true if and only if the narrow
\* phase of the step found a vertical contact whose normal points up.
C17_GroundOnlyFromBelow ==
    pc = "subtract" =>
        (player.onGround <=>
            \E i \in 1 .. Len(collisionList) :
                /\ collisionList[i].vertical
                /\ collisionList[i].normal.y > 0)

\* C18: resolveCollisions takes the records of a pass by rising overlap: of
\* two records with different overlaps the one with the smaller comes first.
C18_AscendingOverlap ==
    pc = "subtract" =>
        \A i, j \in 1 .. Len(processed) :
            i < j => processed[i].overlap <= processed[j].overlap

\* C19: a step runs gravity, integration, the onGround reset, the broad and
\* narrow phase and the resolution in this order; the detection works on the
\* position that the integration of the same step produced, the resolution
\* on all the collisions of the step, and the step leaves the player as the
\* loop body of update does.
C19_PhaseOrder ==
    /\ \A i \in 1 .. Len(phases) :
          \/ phases[i] = bodyOrder[i]
          \/ /\ phases[i] = "subtract"
             /\ bodyOrder[i] = "resolve"
             /\ collisionList = << >>
    /\ pc \notin {"while", "return"} =>
          \/ pc = bodyOrder[Len(phases) + 1]
          \/ pc = "subtract" /\ bodyOrder[Len(phases) + 1] = "resolve"
    /\ pc \in {"reset", "broad"} => player.position = integrated.position
    /\ pc \in {"narrow", "resolve", "subtract"} =>
          candidateList = broadPhase(integrated, World)
    /\ pc \in {"resolve", "subtract"} =>
          /\ collisionList = narrowPhase(candidateList, integrated)
          /\ integrated =
                applyInputs([start EXCEPT !.velocity.y =
                                @ - (gravity * VU * stepSize) \div 1000],
                            stepSize)
    /\ pc = "subtract" =>
          /\ \A i \in 1 .. Len(collisionList) :
                \E j \in 1 .. Len(processed) : processed[j] = collisionList[i]
          /\ player = step(start, World, engine)

\* a step with gravity, motion along x and two collisions or more, one of
\* which moved the player, has run all its phases
C19_Witness ==
    /\ pc = "subtract"
    /\ phases = SubSeq(bodyOrder, 1, 6)
    /\ Len(collisionList) >= 2
    /\ integrated.position.x # start.position.x
    /\ integrated.position.y # start.position.y
    /\ player.position # integrated.position
    /\ steps = 1

\* the player as narrowPhase handed it to resolveCollisions
beforeResolve == [integrated EXCEPT !.onGround = player.onGround]

\* the player after resolveCollisions has taken the first i records
trail(i) == resolveFrom(SubSeq(processed, 1, i), 1, beforeResolve)

dot(a, b) == a.x * b.x + a.y * b.y + a.z * b.z

\* the directions of the three axes
Axes == {Vector3(1, 0, 0), Vector3(0, 1, 0), Vector3(0, 0, 1)}

\* record i of the pass passed the re-test when its turn came
applied(i) ==
    pointInPlayerBoundingCylinder(processed[i].contactPoint, trail(i - 1))

\* C21: a record that passes the re-test against the player's position of
\* the moment moves the player by normal * overlap and leaves the world-frame
\* velocity with no component along the normal, its components orthogonal to
\* the normal as they were; a record that fails the re-test changes
\* nothing.
C21_ResolveOneContact ==
    (pc = "subtract" /\ processed # << >>) =>
        /\ player = trail(Len(processed))
        /\ \A i \in 1 .. Len(processed) :
              LET n == processed[i].normal
                  overlap == processed[i].overlap
                  b == trail(i - 1)
                  a == trail(i)
              IN  IF applied(i)
                  THEN /\ a.position =
                            Vector3(b.position.x + (n.x * overlap) \div XtoY,
                                    b.position.y + n.y * overlap,
                                    b.position.z + (n.z * overlap) \div XtoY)
                       /\ dot(worldVelocity(a), n) = 0
                       /\ \A e \in Axes :
                             dot(e, n) = 0 =>
                                dot(worldVelocity(a), e) = dot(worldVelocity(b), e)
                       /\ a = [b EXCEPT !.position = a.position,
                                        !.velocity = a.velocity]
                  ELSE a = b

\* a pass in which a record stopped a fall, a record stopped the walk of a
\* player whose camera is turned, and a record was skipped because an
\* earlier one had lifted the player off its contact point
C21_Witness ==
    /\ pc = "subtract"
    /\ player.yaw # 0
    /\ \E i, j, k \in 1 .. Len(processed) :
          /\ applied(i)
          /\ processed[i].vertical
          /\ dot(worldVelocity(trail(i - 1)), processed[i].normal) < 0
          /\ applied(j)
          /\ ~processed[j].vertical
          /\ dot(worldVelocity(trail(j - 1)), processed[j].normal) # 0
          /\ trail(j).position.x # trail(j - 1).position.x
          /\ ~applied(k)
          /\ processed[k].overlap > 0

\* what generate(clearCache) makes of world w: disposeChunks leaves the
\* chunks w held without instances and the world without children, the only
\* chunk objects of before that are still referred to wait for their idle
\* callbacks, the children are the chunks of the square around chunk (0, 0),
\* one for each coordinate, all loaded, and the overlay is empty if
\* clearCache and as it was if not
rebuilt(w, clearCache) ==
    LET d == disposeChunks(w)
        g == generate(w, clearCache)
        n == 2 * drawDistance + 1
    IN  /\ d.children = << >>
        /\ \A id \in Range(w.children) : d.chunks[id].inst = {}
        /\ \A id \in DOMAIN g.chunks \ Range(g.children) :
              /\ id \in Range(g.idleQueue)
              /\ g.chunks[id].inst = {}
        /\ Len(g.children) = n * n
        /\ { <<g.chunks[id].x, g.chunks[id].z>> : id \in Range(g.children) }
              = Square(0, 0)
        /\ \A id \in Range(g.children) : g.chunks[id].loaded
        /\ g.dataStore = IF clearCache THEN dsClear ELSE w.dataStore

\* C22: generate(clearCache) disposes and detaches every chunk the world
\* held and then holds exactly the chunks of the square around chunk (0, 0),
\* all of them loaded when it returns, asyncLoading on or off; the overlay
\* is cleared if and only if clearCache is true.
C22_GenerateRebuilds ==
    /\ \A clearCache \in BOOLEAN : rebuilt(World, clearCache)
    /\ last.op \in {"generate", "load"} =>
          /\ Len(children) = (2 * drawDistance + 1) * (2 * drawDistance + 1)
          /\ childCoords = Square(0, 0)
          /\ \A i \in 1 .. Len(children) : chunks[children[i]].loaded

\* generate on a world whose params is an object
GenerateRebuildsWithParams == seed # Null => C22_GenerateRebuilds

\* generate ran, with asyncLoading on, on a world that held chunks waiting
\* for their idle callbacks, and in another call cleared an overlay with edits
GenerateRebuildsReached ==
    /\ last.op = "generate"
    /\ asyncLoading
    /\ \E i \in 1 .. Len(idleQueue) : idleQueue[i] \notin Range(children)
    /\ seed # Null
    /\ childCoords = Square(0, 0)

\* no child of the world has the chunk coordinates of world position (x, z)
ownerAbsent(x, z) ==
    LET coords == worldToChunkCoords(x, 0, z)
    IN  getChunk(World, coords.chunk.x, coords.chunk.z) = NoChunk

\* C23: an addBlock or removeBlock at a position whose chunk is not in the
\* world changes nothing: the children, the blocks and the instances of
\* every chunk, the overlay and the pending generations stay as they were,
\* also when a neighbour of the position is a block of a loaded chunk.
C23_AbsentOwnerNoOp ==
    [][(/\ last'.op \in {"addBlock", "removeBlock"}
        /\ ownerAbsent(last'.x, last'.z))
          => UNCHANGED <<children, chunks, dataStore, idleQueue, asyncLoading,
                         seed>>]_vars

\* an addBlock ran at a position of a chunk the world does not hold, next
\* to a block of a loaded chunk that has its instance
C23_Witness ==
    /\ last.op = "addBlock"
    /\ last.pre = Null
    /\ ownerAbsent(last.x, last.z)
    /\ getBlock(World, last.x - 1, last.y, last.z) \notin {Null, EmptyId}
    /\ LET coords == worldToChunkCoords(last.x - 1, last.y, last.z)
           chunk == getChunk(World, coords.chunk.x, coords.chunk.z)
       IN  cell(coords.block.x, coords.block.y, coords.block.z)
              \in chunks[chunk].inst
    /\ dataStore # dsClear

\* a chunk object is loaded by its generate() and by nothing else: every
\* chunk object has had generate() called once, or never and then its one
\* call waits in the idle queue
calledOnceAtMost ==
    /\ \A i, j \in 1 .. Len(idleQueue) :
          i # j => idleQueue[i] # idleQueue[j]
    /\ \A id \in DOMAIN chunks :
          chunks[id].loaded <=> id \notin Range(idleQueue)

\* the chunk coordinates update() creates chunks at
StreamCoords ==
    (-drawDistance - 1 .. drawDistance + 1) \X (-drawDistance .. drawDistance)

\* a chunk with coordinates c waits for its generate()
waiting(c) ==
    \E i \in 1 .. Len(idleQueue) :
        chunks[idleQueue[i]].x = c[1] /\ chunks[idleQueue[i]].z = c[2]

\* C24: generate() is called at most once on a chunk object, however
\* update, generate and the idle callbacks interleave, and with asyncLoading
\* the generate() of every chunk that update() created is called in the end,
\* the chunk still a child of the world or not.
C24_GenerateOnce ==
    /\ []calledOnceAtMost
    /\ \A c \in StreamCoords :
          waiting(c) ~> (last.op = "idle" /\ last.x = c[1] /\ last.z = c[2])

\* the idle callback of a chunk that update() had created and a later
\* update() removed has run, while other chunks wait
C24_Witness ==
    /\ last.op = "idle"
    /\ ~last.flag
    /\ idleQueue # << >>
    /\ \A i \in 1 .. Len(idleQueue) : idleQueue[i] \in Range(children)

\* C25: no two chunks the world holds have the same chunk coordinates,
\* whatever the order of generate, update (asyncLoading on or off, repeated
\* while generations are waiting), the idle callbacks and load.
C25_UniqueChunkCoords ==
    \A i, j \in 1 .. Len(children) :
        (/\ chunks[children[i]].x = chunks[children[j]].x
         /\ chunks[children[i]].z = chunks[children[j]].z) => i = j

\* after a load that restored saved params, a second update in a row ran
\* while chunks of the first still waited for their generate()
C25_Witness ==
    /\ ~panelBound
    /\ seed # Null
    /\ last.op = "update"
    /\ Len(children) = (2 * drawDistance + 1) * (2 * drawDistance + 1)
    /\ \E i, j \in 1 .. Len(idleQueue) :
          /\ idleQueue[i] \in Range(children)
          /\ idleQueue[j] \notin Range(children)

\* a collision record of the player pl is well formed: the overlap is the
\* smaller of the overlap along y and the overlap in the xz plane and is
\* positive, the normal has length 1 and points from the contact point to
\* the axis (a horizontal contact) or to the centre (a vertical contact)
wellFormed(c, pl) ==
    LET dx == c.contactPoint.x - pl.position.x
        dy == c.contactPoint.y - (pl.position.y - height \div 2)
        dz == c.contactPoint.z - pl.position.z
        overlapY == height \div 2 - Abs(dy)
        overlapXZ == (radius - Sqrt(dx * dx + dz * dz)) * XtoY
    IN  /\ c.overlap = Min(overlapY, overlapXZ)
        /\ c.overlap > 0
        /\ dot(c.normal, c.normal) = 1
        /\ dot(c.normal, Vector3(-dx, -dy, -dz)) > 0

\* the axis of the cylinder does not pass through the contact point
offAxis(c, pl) ==
    \/ c.contactPoint.x # pl.position.x
    \/ c.contactPoint.z # pl.position.z

\* C26: every collision record narrowPhase returns is well formed, also
\* the record of a block the axis of the cylinder passes through.
C26_WellFormedRecords ==
    pc \in {"resolve", "subtract"} =>
        \A i \in 1 .. Len(collisionList) :
            wellFormed(collisionList[i], integrated)

\* the records of vertical contacts and of contacts off the axis
WellFormedOffAxis ==
    pc \in {"resolve", "subtract"} =>
        \A i \in 1 .. Len(collisionList) :
            (collisionList[i].vertical \/ offAxis(collisionList[i], integrated))
                => wellFormed(collisionList[i], integrated)

\* no step of Physics.update is under way
stepEnded == pc \in {"while", "return"}

\* the player stands: onGround, no vertical velocity, the foot of the
\* cylinder on the top face of a solid block that the cylinder is above
atRest ==
    /\ player.onGround
    /\ player.velocity.y = 0
    /\ \E b \in Region :
          /\ solidBlock(b)
          /\ player.position.y - height = b.y * YU + YU \div 2
          /\ Abs(b.x * XU - player.position.x) < XU \div 2 + radius
          /\ b.z * XU = player.position.z

\* C16: with no key held, a player above a solid block of a loaded chunk
\* comes, frame after frame, to a step after which onGround is true, and
\* from then on every step ends with onGround true and velocity.y = 0, the
\* player standing on the block.
C16_RestingLiveness == <>[](stepEnded => atRest)

\* a step that began in a fall has ended with the player standing
C16_Witness ==
    /\ pc = "while"
    /\ phases # << >>
    /\ atRest
    /\ ~start.onGround
    /\ start.velocity.y < 0
    /\ start.position.y > player.position.y
    /\ player.velocity = Vector3(0, 0, 0)

====
